---- MODULE Spec2Model ----
(***************************************************************************)
(* Model of the notification-queue consumer of tg-coach-bot.              *)
(*                                                                         *)
(* The resilient consumer (src/unnamed/part_000) keeps a Firestore         *)
(* listener on the entries whose status is "pending", sends every entry    *)
(* reported as `added` through the Telegram bot and writes the outcome     *)
(* back; on a listener error it restarts the listener after a backoff.     *)
(* src/bot.js holds the earlier consumers, whose error callback only logs. *)
(***************************************************************************)
EXTENDS Integers, Sequences, FiniteSets, Bags, TLC

\* ---------------------------------------------------------------- bounds
\* entries the producer may create
MaxDocs == 2
\* listeners opened while the queue has held an entry
MaxStarts == 2
\* listeners opened while the queue has never held an entry
MaxIdleStarts == 8
\* deliveries the consumer starts in one run
MaxSends == 3
\* edits of a pending entry from outside
MaxTouches == 1

\* ------------------------------------------------------ program constants
BACKOFF_FLOOR == 1000
MAX_BACKOFF == 60000

Docs == 1..MaxDocs

VARIABLES
    status,        \* notification_queue: doc id -> "absent" | "pending" | "sent" | "error"
    sentAt,        \* notification_queue: doc id -> "none" | "server" | "client" (sent_at)
    errMsg,        \* notification_queue: doc id -> error_message ("" when not set)
    handles,       \* every listener opened so far, in order: [st, first, view, mod]
    unsubscribe,   \* index in handles of the listener held by `unsubscribe`, 0 for null
    backoff,       \* ms
    timers,        \* number of pending setTimeout restarts
    shutdown,      \* the SIGTERM handler has run
    tasks,         \* bag of in-flight per-entry deliveries [doc, pc, err]
    unhandled,     \* a rejection escaped a per-entry delivery
    addedCount,    \* history: doc id -> times reported as `added` to the consumer
    sendCount,     \* history: doc id -> calls of bot.sendMessage for it
    sinkFails,     \* history: doc id -> messages of the failed sends for it
    consec,        \* history: listener errors since the last snapshot callback
    lastDelay,     \* history: delay of the latest scheduled restart, 0 when none
    snapshots,     \* history: a snapshot callback has run
    peakBackoff,   \* history: largest value backoff has had
    touches,       \* history: edits of pending entries from outside
    sendOks,       \* history: entries for which a bot.sendMessage call resolved
    restartCause,  \* history: class of the error whose restart is pending
    env            \* process.env: the credentials set when the process starts

store == <<status, sentAt, errMsg>>
session == <<handles, unsubscribe, backoff, timers, shutdown>>
delivery == <<tasks, unhandled>>
history == <<addedCount, sendCount, sinkFails, consec, lastDelay, snapshots, peakBackoff,
             touches, sendOks, restartCause, env>>
vars == <<status, sentAt, errMsg, handles, unsubscribe, backoff, timers, shutdown,
          tasks, unhandled, addedCount, sendCount, sinkFails, consec, lastDelay,
          snapshots, peakBackoff, touches, sendOks, restartCause, env>>

\* ---------------------------------------------------------------- helpers
Min(a, b) == IF a < b THEN a ELSE b

Max(a, b) == IF a < b THEN b ELSE a

\* An error object: its message and what String(error) gives.
NoError == [message |-> "", str |-> ""]

\* What bot.sendMessage rejects with.
SinkErrors == {[message |-> "blocked by user", str |-> "Error: blocked by user"]}

\* What updateDoc rejects with.
WriteError == [message |-> "permission-denied", str |-> "FirebaseError: permission-denied"]

\* error?.message || String(error)
ErrText(error) == IF error.message # "" THEN error.message ELSE error.str

\* view: the result set last delivered; mod: its entries edited since.
LiveHandle == [st |-> "live", first |-> FALSE, view |-> {}, mod |-> {}]

DeadHandle(how) == [st |-> how, first |-> FALSE, view |-> {}, mod |-> {}]

Live == {h \in 1..Len(handles) : handles[h].st = "live"}

\* The result set of notifQuery: where("status", "==", "pending").
notifQuery == {d \in Docs : status[d] = "pending"}

\* snapshot.docChanges() of a listener whose previous result set was `view`,
\* with the entries `mod` of it edited since.
docChanges(view, mod, result) ==
    {[type |-> "added", doc |-> d] : d \in result \ view}
        \cup {[type |-> "modified", doc |-> d] : d \in (view \cap result) \cap mod}
        \cup {[type |-> "removed", doc |-> d] : d \in view \ result}

\* A handler that acts on every change, whatever its type.
AllChangedDocs(changes) == {c.doc : c \in changes}

\* The entries the snapshot handler acts on: change.type === "added".
AddedDocs(changes) == {c.doc : c \in {x \in changes : x.type = "added"}}

\* unsubscribe(): the listener stops delivering; harmless on a closed one.
Release(hs, u) ==
    IF u # 0 /\ hs[u].st = "live" THEN [hs EXCEPT ![u] = DeadHandle("cancelled")] ELSE hs

Task(d, pc, e) == [doc |-> d, pc |-> pc, err |-> e]

Replace(bag, old, new) == (bag (-) SetToBag({old})) (+) SetToBag({new})

RECURSIVE Sum(_, _)
Sum(f, S) == IF S = {} THEN 0 ELSE LET x == CHOOSE y \in S : TRUE IN f[x] + Sum(f, S \ {x})

\* Deliveries started so far: one per `added` change.
Started == Sum(addedCount, Docs)

\* ------------------------------------------------------------------- Init
\* The state once the top-level code has run: startFirestoreListener() was
\* called once, no snapshot has arrived yet.
\* The credentials the program reads from process.env.
Credentials == {"TELEGRAM_BOT_TOKEN", "VITE_FIREBASE_API_KEY"}

\* The module's top level, run with the credentials e set: ENV CHECK logs the
\* missing ones, then the bot is constructed and the listener opened.
Startup(e) ==
    /\ env = e
    /\ status = [d \in Docs |-> "absent"]
    /\ sentAt = [d \in Docs |-> "none"]
    /\ errMsg = [d \in Docs |-> ""]
    /\ handles = <<LiveHandle>>
    /\ unsubscribe = 1
    /\ backoff = BACKOFF_FLOOR
    /\ timers = 0
    /\ shutdown = FALSE
    /\ tasks = EmptyBag
    /\ unhandled = FALSE
    /\ addedCount = [d \in Docs |-> 0]
    /\ sendCount = [d \in Docs |-> 0]
    /\ sinkFails = [d \in Docs |-> {}]
    /\ consec = 0
    /\ lastDelay = 0
    /\ snapshots = FALSE
    /\ peakBackoff = BACKOFF_FLOOR
    /\ touches = 0
    /\ sendOks = {}
    /\ restartCause = "none"

Init == Startup(Credentials)

\* The process started with any of the credentials missing.
InitStartup == \E e \in SUBSET Credentials : Startup(e)

\* ------------------------------------------------------------ the producer
\* An entry is created outside this program with status "pending". Ids are
\* opaque: the model hands them out in order.
CreateEntry(d) ==
    /\ status[d] = "absent"
    /\ \A e \in Docs : e < d => status[e] # "absent"
    /\ Len(handles) <= MaxStarts
    /\ status' = [status EXCEPT ![d] = "pending"]
    /\ UNCHANGED <<sentAt, errMsg, session, delivery, history>>

\* A pending entry is edited outside this program (its status stays
\* "pending"): the listeners that hold it report it as `modified`.
TouchEntry(d) ==
    /\ status[d] = "pending"
    /\ touches < MaxTouches
    /\ \E h \in Live : d \in handles[h].view
    /\ touches' = touches + 1
    /\ handles' = [h \in 1..Len(handles) |->
                     IF handles[h].st = "live" /\ d \in handles[h].view
                     THEN [handles[h] EXCEPT !.mod = @ \cup {d}]
                     ELSE handles[h]]
    /\ UNCHANGED <<store, unsubscribe, backoff, timers, shutdown, delivery,
                   addedCount, sendCount, sinkFails, consec, lastDelay, snapshots,
                   peakBackoff, sendOks, restartCause, env>>

\* ------------------------------------------------------------ the session
\* How many listeners the model lets the program open.
StartBudget == IF \A d \in Docs : status[d] = "absent" THEN MaxIdleStarts ELSE MaxStarts

\* startFirestoreListener(): release the listener held, open a new one.
StartNoRelease ==
    /\ Len(handles) < StartBudget
    /\ handles' = Append(handles, LiveHandle)
    /\ unsubscribe' = Len(handles) + 1

startFirestoreListener ==
    /\ Len(handles) < StartBudget
    /\ handles' = Append(Release(handles, unsubscribe), LiveHandle)
    /\ unsubscribe' = Len(handles) + 1

\* What the snapshot callback does to backoff.
ResetUnlessEmpty(result) == IF result = {} THEN backoff ELSE BACKOFF_FLOOR

SnapshotBackoff(result) == BACKOFF_FLOOR

\* The snapshot callback of listener h: a first snapshot, or a change of the
\* result set. Every `added` entry starts a delivery, which calls
\* bot.sendMessage before the callback returns.
OnSnapshot(h) ==
    LET result == notifQuery
        changes == docChanges(handles[h].view, handles[h].mod, result)
        added == IF result = {} THEN {} ELSE AddedDocs(changes)
    IN  /\ h \in Live
        /\ ~handles[h].first \/ changes # {}
        /\ Started + Cardinality(added) <= MaxSends
        /\ backoff' = SnapshotBackoff(result)
        /\ handles' = [handles EXCEPT ![h] = [st |-> "live", first |-> TRUE, view |-> result,
                                              mod |-> {}]]
        /\ tasks' = tasks (+) SetToBag({Task(d, "send", NoError) : d \in added})
        /\ addedCount' = [d \in Docs |-> addedCount[d] + (IF d \in added THEN 1 ELSE 0)]
        /\ sendCount' = [d \in Docs |-> sendCount[d] + (IF d \in added THEN 1 ELSE 0)]
        /\ consec' = 0
        /\ snapshots' = TRUE
        /\ UNCHANGED <<store, unsubscribe, timers, shutdown, unhandled, sinkFails,
                       lastDelay, peakBackoff, touches, sendOks, restartCause, env>>

\* msg.includes(phrase), on messages and phrases as sequences of words.
Includes(msg, phrase) ==
    \E i \in 1..(Len(msg) - Len(phrase) + 1) : SubSeq(msg, i, i + Len(phrase) - 1) = phrase

\* The errors a listener reports: message (words) and code (as the JS literal
\* reads: "1" the number, "'1'" the string, "" when the error has none).
FeedErrors ==
    { [message |-> <<"Disconnecting", "idle", "stream.", "Timed", "out", "waiting">>,
       code |-> ""],
      [message |-> <<"14", "UNAVAILABLE:", "Timed", "out", "waiting", "for", "new", "targets">>,
       code |-> "14"],
      [message |-> <<"stream", "cancelled">>, code |-> "1"],
      [message |-> <<"stream", "cancelled">>, code |-> "'1'"],
      [message |-> <<"Missing", "or", "insufficient", "permissions.">>,
       code |-> "'permission-denied'"],
      [message |-> <<>>, code |-> ""] }

\* The condition under which the error callback logs with console.warn.
IsTransient(error) ==
    \/ Includes(error.message, <<"Disconnecting", "idle", "stream">>)
    \/ Includes(error.message, <<"Timed", "out", "waiting", "for", "new", "targets">>)
    \/ error.code = "1"
    \/ error.code = "'1'"

\* console.warn for a transient error, console.error for any other.
ErrorClass(error) == IF IsTransient(error) THEN "transient" ELSE "other"

\* An error callback that restarts the listener after a transient error only.
ScheduleRestartIfTransient(error) ==
    /\ timers' = IF IsTransient(error) THEN timers + 1 ELSE timers
    /\ lastDelay' = backoff
    /\ consec' = consec + 1
    /\ restartCause' = ErrorClass(error)
    /\ UNCHANGED <<store, unsubscribe, backoff, shutdown, delivery, addedCount,
                   sendCount, sinkFails, snapshots, peakBackoff, touches, sendOks, env>>

\* An error callback that sets the restart timer twice.
ScheduleRestartTwice(error) ==
    /\ timers' = timers + 2
    /\ lastDelay' = backoff
    /\ consec' = consec + 1
    /\ restartCause' = ErrorClass(error)
    /\ UNCHANGED <<store, unsubscribe, backoff, shutdown, delivery, addedCount,
                   sendCount, sinkFails, snapshots, peakBackoff, touches, sendOks, env>>

\* The error callback: log by class, then setTimeout(restart, backoff).
ScheduleRestart(error) ==
    /\ timers' = timers + 1
    /\ lastDelay' = backoff
    /\ consec' = consec + 1
    /\ restartCause' = ErrorClass(error)
    /\ UNCHANGED <<store, unsubscribe, backoff, shutdown, delivery, addedCount,
                   sendCount, sinkFails, snapshots, peakBackoff, touches, sendOks, env>>

\* Listener h fails: Firestore calls the error callback and the listener is
\* over ("no further callbacks will occur").
OnError(h) ==
    /\ h \in Live
    /\ handles' = [handles EXCEPT ![h] = DeadHandle("errored")]
    /\ \E error \in FeedErrors : ScheduleRestart(error)

\* The same callback on a feed that stays open after reporting an error (the
\* model lets it report one while no restart is pending).
OnErrorOpen(h) ==
    /\ h \in Live
    /\ timers = 0
    /\ Len(handles) < StartBudget
    /\ handles' = handles
    /\ \E error \in FeedErrors : ScheduleRestart(error)

NextBackoffNoCap == backoff * 2

\* The ceiling applied before the doubling instead of after it.
NextBackoffCapFirst == Min(backoff, MAX_BACKOFF) * 2

NextBackoff == Min(backoff * 2, MAX_BACKOFF)

\* The restart timer fires.
TimerFire ==
    /\ timers > 0
    /\ timers' = timers - 1
    /\ backoff' = NextBackoff
    /\ peakBackoff' = Max(peakBackoff, backoff')
    /\ startFirestoreListener
    /\ restartCause' = IF timers' = 0 THEN "none" ELSE restartCause
    /\ UNCHANGED <<store, shutdown, delivery, addedCount, sendCount, sinkFails,
                   consec, lastDelay, snapshots, touches, sendOks, env>>

\* process.on('SIGTERM'): unsubscribe() when a listener is held.
Sigterm ==
    /\ ~shutdown
    /\ shutdown' = TRUE
    /\ handles' = Release(handles, unsubscribe)
    /\ UNCHANGED <<store, unsubscribe, backoff, timers, delivery, history>>

\* ---------------------------------------------------- per-entry delivery
\* await bot.sendMessage(...) resolves; it does not for a bot constructed
\* without a token.
SendOk(t) ==
    /\ BagIn(t, tasks) /\ t.pc = "send"
    /\ "TELEGRAM_BOT_TOKEN" \in env
    /\ tasks' = Replace(tasks, t, Task(t.doc, "writeSent", NoError))
    /\ sendOks' = sendOks \cup {t.doc}
    /\ UNCHANGED <<store, session, unhandled, addedCount, sendCount, sinkFails, consec,
                   lastDelay, snapshots, peakBackoff, touches, restartCause, env>>

\* A consumer that calls bot.sendMessage again after a failure.
SendFailedRetry(t, e) ==
    /\ BagIn(t, tasks) /\ t.pc = "send"
    /\ sendCount[t.doc] < MaxSends
    /\ sendCount' = [sendCount EXCEPT ![t.doc] = @ + 1]
    /\ sinkFails' = [sinkFails EXCEPT ![t.doc] = @ \cup {ErrText(e)}]
    /\ UNCHANGED <<store, session, delivery, addedCount, consec, lastDelay,
                   snapshots, peakBackoff, touches, sendOks, restartCause, env>>

\* A handler whose failure abandons the other deliveries in flight.
SendFailedAbortsBatch(t, e) ==
    /\ BagIn(t, tasks) /\ t.pc = "send"
    /\ tasks' = SetToBag({Task(t.doc, "writeErr", e)})
    /\ sinkFails' = [sinkFails EXCEPT ![t.doc] = @ \cup {ErrText(e)}]
    /\ UNCHANGED <<store, session, unhandled, addedCount, sendCount, consec,
                   lastDelay, snapshots, peakBackoff, touches, sendOks, restartCause, env>>

\* A handler that issues the "sent" write whatever the send's outcome.
SendFailedMarksSent(t, e) ==
    /\ BagIn(t, tasks) /\ t.pc = "send"
    /\ tasks' = Replace(tasks, t, Task(t.doc, "writeSent", NoError))
    /\ sinkFails' = [sinkFails EXCEPT ![t.doc] = @ \cup {ErrText(e)}]
    /\ UNCHANGED <<store, session, unhandled, addedCount, sendCount, consec,
                   lastDelay, snapshots, peakBackoff, touches, sendOks, restartCause, env>>

\* await bot.sendMessage(...) rejects with e: the catch block issues the
\* "error" write.
SendFailed(t, e) ==
    /\ BagIn(t, tasks) /\ t.pc = "send"
    /\ tasks' = Replace(tasks, t, Task(t.doc, "writeErr", e))
    /\ sinkFails' = [sinkFails EXCEPT ![t.doc] = @ \cup {ErrText(e)}]
    /\ UNCHANGED <<store, session, unhandled, addedCount, sendCount, consec,
                   lastDelay, snapshots, peakBackoff, touches, sendOks, restartCause, env>>

\* updateDoc({status: "sent", sent_at: serverTimestamp()}) resolves.
WriteSentOk(t) ==
    /\ BagIn(t, tasks) /\ t.pc = "writeSent"
    /\ status' = [status EXCEPT ![t.doc] = "sent"]
    /\ sentAt' = [sentAt EXCEPT ![t.doc] = "server"]
    /\ tasks' = tasks (-) SetToBag({t})
    /\ UNCHANGED <<errMsg, session, unhandled, history>>

\* updateDoc({status: "sent", ...}) rejects: the same catch block runs.
WriteSentFailed(t) ==
    /\ BagIn(t, tasks) /\ t.pc = "writeSent"
    /\ tasks' = Replace(tasks, t, Task(t.doc, "writeErr", WriteError))
    /\ UNCHANGED <<store, session, unhandled, addedCount, sendCount, sinkFails, consec,
                   lastDelay, snapshots, peakBackoff, touches, sendOks, restartCause, env>>

\* updateDoc({status: "error", error_message: ...}) resolves.
WriteErrOk(t) ==
    /\ BagIn(t, tasks) /\ t.pc = "writeErr"
    /\ status' = [status EXCEPT ![t.doc] = "error"]
    /\ errMsg' = [errMsg EXCEPT ![t.doc] = ErrText(t.err)]
    /\ tasks' = tasks (-) SetToBag({t})
    /\ UNCHANGED <<sentAt, session, unhandled, history>>

\* updateDoc({status: "error", ...}) rejects: nothing catches it.
WriteErrFailed(t) ==
    /\ BagIn(t, tasks) /\ t.pc = "writeErr"
    /\ tasks' = tasks (-) SetToBag({t})
    /\ unhandled' = TRUE
    /\ UNCHANGED <<store, session, addedCount, sendCount, sinkFails, consec, lastDelay,
                   snapshots, peakBackoff, touches, sendOks, restartCause, env>>

\* ------------------------------------------------------------------- Next
Next ==
    \/ \E d \in Docs : CreateEntry(d)
    \/ \E h \in 1..Len(handles) : OnSnapshot(h)
    \/ \E h \in 1..Len(handles) : OnError(h)
    \/ TimerFire
    \/ Sigterm
    \/ \E t \in BagToSet(tasks) : SendOk(t)
    \/ \E t \in BagToSet(tasks) : \E e \in SinkErrors : SendFailed(t, e)
    \/ \E t \in BagToSet(tasks) : WriteSentOk(t)
    \/ \E t \in BagToSet(tasks) : WriteSentFailed(t)
    \/ \E t \in BagToSet(tasks) : WriteErrOk(t)
    \/ \E t \in BagToSet(tasks) : WriteErrFailed(t)

Spec == Init /\ [][Next]_vars

\* ------------------------------------------ started without credentials
SpecStartup == InitStartup /\ [][Next]_vars

\* --------------------------------------- entries edited while pending
NextEdit ==
    \/ Next
    \/ \E d \in Docs : TouchEntry(d)

SpecEdit == Init /\ [][NextEdit]_vars

\* ------------------------------------------- the feed that stays open
\* The Queue Store contract does not say that a handle is closed once it has
\* reported an error; startFirestoreListener releases the handle it holds for
\* that reason. NextOpen is the session, on an empty queue, with a feed whose
\* handle may stay open after an error.
NextOpen ==
    \/ \E h \in 1..Len(handles) : OnSnapshot(h)
    \/ \E h \in 1..Len(handles) : OnError(h)
    \/ \E h \in 1..Len(handles) : OnErrorOpen(h)
    \/ TimerFire
    \/ Sigterm

SpecOpenFeed == Init /\ [][NextOpen]_vars

\* ------------------------------------- the earlier consumer (src/bot.js)
\* error.message || "Unknown error"
AdminErrText(error) == IF error.message # "" THEN error.message ELSE "Unknown error"

\* The snapshot callback: if (snapshot.empty) return; then as above. There is
\* no backoff to reset.
AdminOnSnapshot(h) ==
    LET result == notifQuery
        changes == docChanges(handles[h].view, handles[h].mod, result)
        added == IF result = {} THEN {} ELSE AddedDocs(changes)
    IN  /\ h \in Live
        /\ ~handles[h].first \/ changes # {}
        /\ Started + Cardinality(added) <= MaxSends
        /\ handles' = [handles EXCEPT ![h] = [st |-> "live", first |-> TRUE, view |-> result,
                                              mod |-> {}]]
        /\ tasks' = tasks (+) SetToBag({Task(d, "send", NoError) : d \in added})
        /\ addedCount' = [d \in Docs |-> addedCount[d] + (IF d \in added THEN 1 ELSE 0)]
        /\ sendCount' = [d \in Docs |-> sendCount[d] + (IF d \in added THEN 1 ELSE 0)]
        /\ consec' = 0
        /\ snapshots' = TRUE
        /\ UNCHANGED <<store, unsubscribe, backoff, timers, shutdown, unhandled,
                       sinkFails, lastDelay, peakBackoff, touches, sendOks, restartCause, env>>

\* The error callback: console.error, nothing else.
AdminOnError(h) ==
    /\ h \in Live
    /\ handles' = [handles EXCEPT ![h] = DeadHandle("errored")]
    /\ consec' = consec + 1
    /\ UNCHANGED <<store, unsubscribe, backoff, timers, shutdown, delivery,
                   addedCount, sendCount, sinkFails, lastDelay, snapshots, peakBackoff,
                   touches, sendOks, restartCause, env>>

\* process.on('SIGTERM'): unsubscribe().
AdminSigterm ==
    /\ ~shutdown
    /\ shutdown' = TRUE
    /\ handles' = Release(handles, unsubscribe)
    /\ UNCHANGED <<store, unsubscribe, backoff, timers, delivery, history>>

\* notifCollection.doc(docId).update({status: "error", ...}) resolves.
AdminWriteErrOk(t) ==
    /\ BagIn(t, tasks) /\ t.pc = "writeErr"
    /\ status' = [status EXCEPT ![t.doc] = "error"]
    /\ errMsg' = [errMsg EXCEPT ![t.doc] = AdminErrText(t.err)]
    /\ tasks' = tasks (-) SetToBag({t})
    /\ UNCHANGED <<sentAt, session, unhandled, history>>

NextAdmin ==
    \/ \E d \in Docs : CreateEntry(d)
    \/ \E h \in 1..Len(handles) : AdminOnSnapshot(h)
    \/ \E h \in 1..Len(handles) : AdminOnError(h)
    \/ AdminSigterm
    \/ \E t \in BagToSet(tasks) : SendOk(t)
    \/ \E t \in BagToSet(tasks) : \E e \in SinkErrors : SendFailed(t, e)
    \/ \E t \in BagToSet(tasks) : WriteSentOk(t)
    \/ \E t \in BagToSet(tasks) : WriteSentFailed(t)
    \/ \E t \in BagToSet(tasks) : AdminWriteErrOk(t)
    \/ \E t \in BagToSet(tasks) : WriteErrFailed(t)

SpecAdmin == Init /\ [][NextAdmin]_vars

\* ------------------------- the first consumer (src/bot.js, client SDK)
\* The snapshot callback: one delivery per `added` change; the snapshot is
\* not tested for emptiness and there is no backoff.
ClientOnSnapshot(h) ==
    LET result == notifQuery
        changes == docChanges(handles[h].view, handles[h].mod, result)
        added == AddedDocs(changes)
    IN  /\ h \in Live
        /\ ~handles[h].first \/ changes # {}
        /\ Started + Cardinality(added) <= MaxSends
        /\ handles' = [handles EXCEPT ![h] = [st |-> "live", first |-> TRUE, view |-> result,
                                              mod |-> {}]]
        /\ tasks' = tasks (+) SetToBag({Task(d, "send", NoError) : d \in added})
        /\ addedCount' = [d \in Docs |-> addedCount[d] + (IF d \in added THEN 1 ELSE 0)]
        /\ sendCount' = [d \in Docs |-> sendCount[d] + (IF d \in added THEN 1 ELSE 0)]
        /\ consec' = 0
        /\ snapshots' = TRUE
        /\ UNCHANGED <<store, unsubscribe, backoff, timers, shutdown, unhandled,
                       sinkFails, lastDelay, peakBackoff, touches, sendOks, restartCause, env>>

\* The error callback: console.error, nothing else.
ClientOnError(h) ==
    /\ h \in Live
    /\ handles' = [handles EXCEPT ![h] = DeadHandle("errored")]
    /\ consec' = consec + 1
    /\ UNCHANGED <<store, unsubscribe, backoff, timers, shutdown, delivery,
                   addedCount, sendCount, sinkFails, lastDelay, snapshots, peakBackoff,
                   touches, sendOks, restartCause, env>>

\* updateDoc({status: "sent", sent_at: new Date()}) resolves: the time is
\* this process's clock.
ClientWriteSentOk(t) ==
    /\ BagIn(t, tasks) /\ t.pc = "writeSent"
    /\ status' = [status EXCEPT ![t.doc] = "sent"]
    /\ sentAt' = [sentAt EXCEPT ![t.doc] = "client"]
    /\ tasks' = tasks (-) SetToBag({t})
    /\ UNCHANGED <<errMsg, session, unhandled, history>>

\* updateDoc({status: "error", error_message: error.message}) resolves.
ClientWriteErrOk(t) ==
    /\ BagIn(t, tasks) /\ t.pc = "writeErr"
    /\ status' = [status EXCEPT ![t.doc] = "error"]
    /\ errMsg' = [errMsg EXCEPT ![t.doc] = t.err.message]
    /\ tasks' = tasks (-) SetToBag({t})
    /\ UNCHANGED <<sentAt, session, unhandled, history>>

NextClient ==
    \/ \E d \in Docs : CreateEntry(d)
    \/ \E h \in 1..Len(handles) : ClientOnSnapshot(h)
    \/ \E h \in 1..Len(handles) : ClientOnError(h)
    \/ \E t \in BagToSet(tasks) : SendOk(t)
    \/ \E t \in BagToSet(tasks) : \E e \in SinkErrors : SendFailed(t, e)
    \/ \E t \in BagToSet(tasks) : ClientWriteSentOk(t)
    \/ \E t \in BagToSet(tasks) : WriteSentFailed(t)
    \/ \E t \in BagToSet(tasks) : ClientWriteErrOk(t)
    \/ \E t \in BagToSet(tasks) : WriteErrFailed(t)

SpecClient == Init /\ [][NextClient]_vars

\* ----------------------------------------------------------------- claims
RECURSIVE Pow2(_)
Pow2(n) == IF n = 0 THEN 1 ELSE 2 * Pow2(n - 1)

\* C1: an entry that is never reset to pending from outside is reported as
\* `added` to the consumer at most once, and bot.sendMessage is called at most
\* once for it, whatever the interleaving of snapshots, listener errors and
\* restarts.
C1_ObservedOnce == \A d \in Docs : addedCount[d] <= 1 /\ sendCount[d] <= 1

\* C2: bot.sendMessage is called at most once per time an entry is reported
\* as `added` (so at most once for an entry reported once), however many
\* listener errors and restarts happen; a failed send is never repeated.
C2_OneSendPerAdded == \A d \in Docs : sendCount[d] <= addedCount[d]

\* An entry reported once whose only send failed and was recorded, with a
\* restart of the listener in the same run.
C2_Witness ==
    \E d \in Docs :
        /\ addedCount[d] = 1 /\ sendCount[d] = 1
        /\ sinkFails[d] # {} /\ status[d] = "error"
        /\ Len(handles) >= 2 /\ tasks = EmptyBag

\* C3: once the status of an entry is "sent" or "error", no step of the
\* consumer changes it.
C3_TerminalStatus ==
    [][\A d \in Docs : status[d] \in {"sent", "error"} => status'[d] = status[d]]_vars

\* C4: an entry has status "error" only when a send for it failed, and its
\* error_message is the message of that failure; a failed "sent" write leads
\* to no further write.
C4_ErrorOnlyOnSinkFailure ==
    \A d \in Docs : status[d] = "error" => errMsg[d] \in sinkFails[d]

\* C5: a pending entry has neither sent_at nor error_message; a sent entry has
\* sent_at and no error_message; an error entry has error_message and no
\* sent_at.
C5_EntryFields ==
    \A d \in Docs :
        /\ status[d] = "pending" => sentAt[d] = "none" /\ errMsg[d] = ""
        /\ status[d] = "sent" => sentAt[d] # "none" /\ errMsg[d] = ""
        /\ status[d] = "error" => sentAt[d] = "none" /\ errMsg[d] # ""

\* C6: after N listener errors in a row with no snapshot callback between
\* them, the delay of the restart scheduled by the Nth is
\* min(1000 * 2^(N-1), 60000): 1000, 2000, 4000, 8000, 16000, 32000, 60000.
C6_BackoffSchedule ==
    consec >= 1 => lastDelay = Min(BACKOFF_FLOOR * Pow2(consec - 1), MAX_BACKOFF)

\* The seventh error in a row schedules the restart at the ceiling.
C6_Witness == consec = 7 /\ lastDelay = 60000

\* C7: the listener error that follows a snapshot callback schedules its
\* restart after the floor delay, whatever backoff was before the callback.
C7_ResetOnSuccess ==
    [][(snapshots /\ consec = 0 /\ consec' = 1) => lastDelay' = BACKOFF_FLOOR]_vars

\* backoff had been doubled twice, then a snapshot of the empty queue arrived,
\* and the next error scheduled the restart after the floor delay.
C7_Witness ==
    /\ snapshots /\ consec = 1 /\ lastDelay = BACKOFF_FLOOR
    /\ peakBackoff >= 4 * BACKOFF_FLOOR
    /\ \A d \in Docs : status[d] = "absent"

\* C8: at most one listener is open at any time, and it is the one held in
\* `unsubscribe`: a listener replaced by a restart delivers nothing more.
C8_OneLiveHandle == Cardinality(Live) <= 1 /\ Live \subseteq {unsubscribe}

\* A restart released a listener that was still open, and the new one is the
\* only one open.
C8_Witness ==
    /\ ~shutdown /\ Live = {unsubscribe}
    /\ \E h \in 1..Len(handles) : handles[h].st = "cancelled"

\* C9: while no shutdown signal has arrived, the consumer has an open listener
\* or a restart scheduled.
C9_FeedOrRestart == ~shutdown => (Live # {} \/ timers > 0)

\* C10: once the SIGTERM handler has run, no listener is open.
C10_NoFeedAfterShutdown == shutdown => Live = {}

\* C11: bot.sendMessage is called for an entry only in a step in which an open
\* listener reports it as `added` (it is pending and was not in the listener's
\* result set); a `modified` or `removed` change, the consumer's own status
\* write echoing back included, starts no send.
C11_NoSendOnEcho ==
    [][\A d \in Docs :
          sendCount'[d] # sendCount[d] =>
              /\ status[d] = "pending"
              /\ \E h \in Live : d \notin handles[h].view /\ d \in handles'[h].view]_vars

\* The only listener reported two entries; it then delivered the `removed`
\* change that the "sent" write of one echoes back and the `modified` change
\* of an edit, and each entry was sent once.
C11_Witness ==
    /\ Len(handles) = 1 /\ handles[1].st = "live" /\ handles[1].mod = {}
    /\ touches > 0
    /\ \E d \in Docs : status[d] = "sent" /\ sendCount[d] = 1 /\ d \notin handles[1].view
    /\ \E d \in Docs : status[d] = "pending" /\ sendCount[d] = 1 /\ d \in handles[1].view

\* The deliveries of entry d still in flight.
InFlight(d) == {t \in BagToSet(tasks) : t.doc = d}

\* A status write of the finished delivery of entry d was rejected: the "sent"
\* write (the entry then carries the write's message) or the "error" write
\* (the entry is still pending and the rejection escaped).
WriteFailed(d) ==
    \/ errMsg[d] = ErrText(WriteError)
    \/ status[d] = "pending" /\ unhandled

\* C12: an entry reported once, whose delivery is over and whose status
\* writes did not fail, has the outcome its own send had, whatever happened
\* to the other entries of the batch and in whatever order the deliveries
\* completed: "sent" when the send resolved, "error" with the failure's
\* message when it rejected.
C12_BatchOutcome ==
    \A d \in Docs :
        (addedCount[d] = 1 /\ InFlight(d) = {} /\ ~WriteFailed(d)) =>
            IF sinkFails[d] = {}
            THEN status[d] = "sent"
            ELSE status[d] = "error" /\ errMsg[d] \in sinkFails[d]

\* Two entries of the one listener's result set have been delivered; the
\* send failed for one, which is marked "error", and the other is marked "sent".
C12_Witness ==
    /\ Len(handles) = 1 /\ Cardinality(handles[1].view) >= 2 /\ tasks = EmptyBag
    /\ \E d \in handles[1].view :
          addedCount[d] = 1 /\ status[d] = "error" /\ errMsg[d] \in sinkFails[d]
    /\ \E d \in handles[1].view :
          addedCount[d] = 1 /\ status[d] = "sent" /\ sinkFails[d] = {}

\* C13: a rejected status write, of "sent" or of "error", is absorbed by the
\* per-entry handler: no rejection escapes it.
C13_WriteFailureAbsorbed == ~unhandled

\* C19: a status write for an entry is issued only after a send for that
\* entry has completed, the "sent" write only after a send that resolved; an
\* entry marked "sent" has had a successful send, an entry the consumer
\* never sent is never written, and a delivery writes only to its own entry.
SendThenStatus ==
    /\ \A d \in Docs :
          /\ status[d] = "sent" => d \in sendOks
          /\ status[d] \in {"sent", "error"} =>
                sendCount[d] >= 1 /\ (d \in sendOks \/ sinkFails[d] # {})
    /\ \A t \in BagToSet(tasks) :
          /\ t.pc = "writeSent" => t.doc \in sendOks
          /\ t.pc = "writeErr" => t.doc \in sendOks \/ sinkFails[t.doc] # {}

\* A step that marks entry d "sent" or "error" completes a status write of a
\* delivery of d.
OwnEntryOnly ==
    \A d \in Docs :
        (status'[d] # status[d] /\ status'[d] \in {"sent", "error"}) =>
            \E t \in InFlight(d) :
                /\ t.pc = (IF status'[d] = "sent" THEN "writeSent" ELSE "writeErr")
                /\ tasks' = tasks (-) SetToBag({t})

C19_SendPrecedesStatus == []SendThenStatus /\ [][OwnEntryOnly]_vars

\* One entry is marked "sent" after its send resolved, another "error" after
\* its send rejected.
C19_Witness ==
    /\ \E d \in Docs : status[d] = "sent" /\ d \in sendOks /\ sinkFails[d] = {}
    /\ \E d \in Docs : status[d] = "error" /\ d \notin sendOks /\ sinkFails[d] # {}

\* C14: an entry reported once, whose delivery is over and whose status
\* writes were not rejected, ends "sent" with a sent time assigned by the
\* store's server when its send resolved, and "error" with the failure's
\* text as error detail when its send rejected; it does not stay pending.
C14_EndToEnd ==
    \A d \in Docs :
        (addedCount[d] = 1 /\ InFlight(d) = {} /\ ~WriteFailed(d)) =>
            IF sinkFails[d] = {}
            THEN status[d] = "sent" /\ sentAt[d] = "server" /\ errMsg[d] = ""
            ELSE status[d] = "error" /\ errMsg[d] \in sinkFails[d] /\ sentAt[d] = "none"

\* C15: whatever the class of the error a listener reports, the error
\* callback leaves the session in the state determined by the state before
\* it alone: the listener is over, one more restart timer is pending, set to
\* the current backoff, and nothing else of the session, the store or the
\* deliveries has changed.
C15_ClassIrrelevant ==
    [][\A h \in 1..Len(handles) :
          (handles[h].st = "live" /\ handles'[h].st = "errored") =>
              /\ handles' = [handles EXCEPT ![h] = DeadHandle("errored")]
              /\ timers' = timers + 1
              /\ lastDelay' = backoff
              /\ UNCHANGED <<store, unsubscribe, backoff, shutdown, delivery>>]_vars

\* A restart is pending, at twice the floor delay, for an error that is not
\* in the transient class.
C15_Witness ==
    /\ restartCause = "other" /\ timers = 1 /\ Live = {}
    /\ lastDelay = 2 * BACKOFF_FLOOR

\* C16: a process started with a credential missing opens no listener and
\* calls bot.sendMessage for no entry.
C16_FatalStartup ==
    env # Credentials => Len(handles) = 0 /\ \A d \in Docs : sendCount[d] = 0

\* C17: backoff is always one of 1000, 2000, 4000, 8000, 16000, 32000 and
\* 60000 ms, so never below the floor nor above the ceiling.
C17_BackoffRange ==
    /\ backoff \in {1000, 2000, 4000, 8000, 16000, 32000, 60000}
    /\ BACKOFF_FLOOR <= backoff /\ backoff <= MAX_BACKOFF

\* backoff has reached the ceiling and a listener is open again.
C17_Witness == backoff = MAX_BACKOFF /\ timers = 0 /\ Live # {}

\* The listeners that have reported an error.
Errored == {h \in 1..Len(handles) : handles[h].st = "errored"}

\* C18: with listeners that report at most one error and nothing after it,
\* at most one restart timer is pending, none is pending while a listener is
\* open, and startFirestoreListener has been called once for the start of
\* the program and once for every error whose timer has fired.
C18_OneRestartPerError ==
    /\ timers <= 1
    /\ timers > 0 => Live = {}
    /\ Len(handles) = 1 + Cardinality(Errored) - timers

\* The third listener has failed and its restart is pending.
C18_Witness ==
    /\ ~shutdown /\ timers = 1 /\ Live = {}
    /\ Len(handles) = 3 /\ Cardinality(Errored) = 3

====
